---- MODULE Spec2Model ----
(***************************************************************************)
(* Model of reviewer-agent/review.py: the pre-screening pipeline.          *)
(*                                                                         *)
(*   read_file                   the text loader (truncation with marker)  *)
(*   collect_submission_content  the submission scanner                    *)
(*   build_review_prompt         the prompt assembler                      *)
(*   main                        the driver: clone, scan, assemble,        *)
(*                               generate, publish or print, cleanup       *)
(*                                                                         *)
(* Texts, paths and prompt sections are TLA+ strings, built with \o as the *)
(* code builds them with f-strings.  The document returned by              *)
(* build_review_prompt is kept as the list `sections` the code appends to  *)
(* (the code returns "\n".join(sections)).                                 *)
(*                                                                         *)
(* Two specifications: Spec is one run of main over a cloned repository;   *)
(* SpecLoad applies read_file to bounded texts and budgets.                *)
(***************************************************************************)
EXTENDS Integers, Sequences, FiniteSets, TLC

VARIABLES
    pc,               \* position of main
    dry_run,          \* args.dry_run
    clone_dir_exists, \* whether /tmp/aider-review-submission exists
    repo,             \* the files of the cloned repository (existing path -> file state)
    listed,           \* order in which the last code_dir.rglob("*.py") listed its matches
    content,          \* the dict returned by collect_submission_content
    sections,         \* the list build_review_prompt joins
    report,           \* the text returned by call_llm
    calls,            \* how often each collaborator was invoked
    failed,           \* the stage that aborted the run ("" while none has)
    exit_status,      \* the process's exit status (-1 while running)
    stdout,           \* whether the report was printed (dry run)
    posted,           \* the comment bodies posted to the issue
    warned,           \* whether the missing-manuscript warning was printed
    prompt,           \* the text build_review_prompt returned
    load_file,        \* SpecLoad: the file read_file is applied to
    load_max,         \* SpecLoad: max_chars
    load_out,         \* SpecLoad: the text read_file returned
    load_pc           \* SpecLoad: "call" or "returned"

vars == <<pc, dry_run, clone_dir_exists, repo, listed, content, sections, report,
          calls, failed, exit_status, stdout, posted, warned, prompt,
          load_file, load_max, load_out, load_pc>>

mainVars == <<pc, dry_run, clone_dir_exists, repo, listed, content, sections, report,
              calls, failed, exit_status, stdout, posted, warned, prompt>>

loadVars == <<load_file, load_max, load_out, load_pc>>

(***************************************************************************)
(* Bounds of the model.                                                    *)
(***************************************************************************)
\* number of *.py paths a repository may hold under code/
MaxPy == 12
\* longest text SpecLoad hands to read_file
MaxLen == 4
\* largest max_chars SpecLoad hands to read_file
MaxBudget == 11

(***************************************************************************)
(* Program constants.                                                      *)
(***************************************************************************)
\* read_file's default max_chars
DefaultBudget == 15000
\* max_chars for each source file
SourceBudget == 5000
\* max_chars for dependencies, AI session sample and reproduce script
SmallBudget == 3000
\* sorted(code_dir.rglob("*.py"))[:10]
SourceCap == 10

Min(a, b) == IF a < b THEN a ELSE b

(***************************************************************************)
(* Files.  A path of the clone directory is absent, a readable file with   *)
(* its decoded text (what path.read_text(errors="replace") returns), or    *)
(* "blocked": it exists but read_text raises (no permission, a directory). *)
(***************************************************************************)
Absent == [kind |-> "absent", text |-> ""]

Blocked == [kind |-> "blocked", text |-> ""]

File(t) == [kind |-> "file", text |-> t]

Exists(f) == f.kind # "absent"

\* the state of path p in the clone directory fs, which maps the paths that exist
At(fs, p) == IF p \in DOMAIN fs THEN fs[p] ELSE Absent

(***************************************************************************)
(* read_file (lines 34-42).                                                *)
(***************************************************************************)
\* f"\n\n[... truncated at {max_chars} chars ...]"
TruncationMarker(max_chars) ==
    "\n\n[... truncated at " \o ToString(max_chars) \o " chars ...]"

\* text[:max_chars], for max_chars >= 0
Prefix(text, max_chars) == SubSeq(text, 1, Min(max_chars, Len(text)))

read_file_cut_at_limit(f, max_chars) ==
    IF f.kind # "file"
    THEN ""
    ELSE IF Len(f.text) >= max_chars
         THEN Prefix(f.text, max_chars) \o TruncationMarker(max_chars)
         ELSE f.text

read_file(f, max_chars) ==
    IF f.kind # "file"
    THEN ""                                   \* except Exception: return ""
    ELSE IF Len(f.text) > max_chars
         THEN Prefix(f.text, max_chars) \o TruncationMarker(max_chars)
         ELSE f.text

(***************************************************************************)
(* Paths of the clone directory, relative to its root.                     *)
(***************************************************************************)
\* the single fixed paths of lines 59, 84, 103, 108, 113, 118
SlotPaths == {"README.md", "code/README.md", "process-log/README.md",
              "REPRODUCIBILITY.md", "results/reproduce.sh", "data/README.md"}

PaperPaths == {"paper/main.tex", "paper/main.md", "paper/draft.tex",
               "paper/appendix.tex", "paper/notes.md"}

\* the candidates of line 76, in the order the loop visits them
DepCandidates == <<"code/requirements.txt", "code/pyproject.toml", "code/environment.yml">>

DepPaths == {DepCandidates[i] : i \in 1..Len(DepCandidates)}

AiPaths == {"process-log/ai-sessions/.gitkeep", "process-log/ai-sessions/s1.md",
            "process-log/ai-sessions/s2.md"}

HumanPaths == {"process-log/human-decisions/.gitkeep", "process-log/human-decisions/d1.md",
               "process-log/human-decisions/d2.md"}

OtherDataPaths == {"data/raw/d1.csv"}

Pad(i) == IF i < 10 THEN "0" \o ToString(i) ELSE ToString(i)

\* The i-th *.py path under code/.  The first three sit in code/ itself, the
\* others in a subdirectory; the names are chosen so that pathlib's order of the
\* paths (by components) is the order of their indices.
PyPath(i) == IF i <= 3 THEN "code/m" \o Pad(i) \o ".py"
                       ELSE "code/pkg/m" \o Pad(i) \o ".py"

PyPaths == {PyPath(i) : i \in 1..MaxPy}

AllPaths == SlotPaths \cup PaperPaths \cup DepPaths \cup AiPaths \cup HumanPaths
            \cup OtherDataPaths \cup PyPaths

\* Path.name is ".gitkeep"
IsGitkeep(p) == p \in {"process-log/ai-sessions/.gitkeep",
                       "process-log/human-decisions/.gitkeep"}

\* the paths below each directory the scanner probes
CodeTree == {"code/README.md"} \cup DepPaths \cup PyPaths

DataTree == {"data/README.md"} \cup OtherDataPaths

\* the index of each *.py path of the model
PyIndex == [p \in PyPaths |-> CHOOSE i \in 1..MaxPy : PyPath(i) = p]

PyRank(p) == PyIndex[p]

\* Path.__lt__ on the *.py paths of the model

PathLess(p, q) == PyRank(p) < PyRank(q)

\* (root / d).exists(): git keeps a directory only for the files below it
DirExists(fs, tree) == \E p \in tree : Exists(At(fs, p))

(***************************************************************************)
(* Directory listings.  glob and rglob yield their matches in the order    *)
(* the file system lists them, which the code does not control: a listing  *)
(* is any one of the orders below.                                         *)
(***************************************************************************)
\* the paths of S in the order of PathLess
RECURSIVE Ascending(_)
Ascending(S) ==
    IF S = {} THEN <<>>
    ELSE LET least == CHOOSE p \in S : \A q \in S \ {p} : PathLess(p, q)
         IN <<least>> \o Ascending(S \ {least})

Rotate(s, k) == [i \in 1..Len(s) |-> s[((i + k - 1) % Len(s)) + 1]]

Reverse(s) == [i \in 1..Len(s) |-> s[Len(s) + 1 - i]]

\* the listings of the *.py paths S: every rotation of the sorted order and of its reverse
PyListings(S) ==
    IF S = {} THEN {<<>>}
    ELSE {Rotate(Ascending(S), k) : k \in 0..(Cardinality(S) - 1)}
         \cup {Rotate(Reverse(Ascending(S)), k) : k \in 0..(Cardinality(S) - 1)}

\* every order of a small set of paths
Listings(S) == {s \in [1..Cardinality(S) -> S] : \A p \in S : \E i \in DOMAIN s : s[i] = p}

(***************************************************************************)
(* collect_submission_content (lines 45-126).                              *)
(***************************************************************************)
\* the dict literal {}
EmptyDict == [k \in {} |-> ""]

\* line 51
ManuscriptPatterns == <<"paper/main.tex", "paper/main.md", "paper/*.tex", "paper/*.md">>

\* whether path p matches a pattern of line 51
Fnmatch(p, pattern) ==
    CASE pattern = "paper/*.tex" -> p \in {"paper/main.tex", "paper/draft.tex", "paper/appendix.tex"}
      [] pattern = "paper/*.md"  -> p \in {"paper/main.md", "paper/notes.md"}
      [] OTHER                   -> p = pattern

\* the set of list(root.glob(pattern))
GlobMatches(fs, pattern) == {p \in PaperPaths : Exists(At(fs, p)) /\ Fnmatch(p, pattern)}

\* Lines 50-56 from the i-th pattern on; first_listed[pattern] is matches[0].
RECURSIVE ManuscriptFrom(_, _, _)
ManuscriptFrom(fs, first_listed, i) ==
    IF i > Len(ManuscriptPatterns) THEN EmptyDict
    ELSE LET pattern == ManuscriptPatterns[i]
         IN IF GlobMatches(fs, pattern) # {}
            THEN ("manuscript" :> read_file(At(fs, first_listed[pattern]), DefaultBudget))
                 @@ ("manuscript_file" :> first_listed[pattern])       \* break
            ELSE ManuscriptFrom(fs, first_listed, i + 1)

\* the loop without its break: every matching pattern overwrites the entry
RECURSIVE ManuscriptOverwriting(_, _, _)
ManuscriptOverwriting(fs, first_listed, i) ==
    IF i = 0 THEN EmptyDict
    ELSE LET pattern == ManuscriptPatterns[i]
         IN IF GlobMatches(fs, pattern) # {}
            THEN ("manuscript" :> read_file(At(fs, first_listed[pattern]), DefaultBudget))
                 @@ ("manuscript_file" :> first_listed[pattern])
            ELSE ManuscriptOverwriting(fs, first_listed, i - 1)

ManuscriptSlots_last_match(fs, first_listed) ==
    ManuscriptOverwriting(fs, first_listed, Len(ManuscriptPatterns))

ManuscriptSlots(fs, first_listed) == ManuscriptFrom(fs, first_listed, 1)

\* lines 58-61, 83-86, 102-120: one fixed path, read when it exists
FixedSlot(fs, key, path, max_chars) ==
    IF Exists(At(fs, path)) THEN key :> read_file(At(fs, path), max_chars) ELSE EmptyDict

Sorted_as_listed(listing) == listing

\* sorted(...)
Sorted(listing) == SortSeq(listing, PathLess)

\* lines 63-73: py_listing is the order code_dir.rglob("*.py") yields
SourceFiles(fs, py_listing) ==
    IF DirExists(fs, CodeTree)
    THEN LET py_files == SubSeq(Sorted(py_listing), 1, Min(SourceCap, Len(py_listing)))
         IN [i \in 1..Len(py_files) |->
                [path |-> py_files[i], content |-> read_file(At(fs, py_files[i]), SourceBudget)]]
    ELSE <<>>

\* lines 75-81 from the i-th candidate on
RECURSIVE DependenciesFrom(_, _)
DependenciesFrom(fs, i) ==
    IF i > Len(DepCandidates) THEN EmptyDict
    ELSE IF Exists(At(fs, DepCandidates[i]))
         THEN ("dependencies" :> read_file(At(fs, DepCandidates[i]), SmallBudget))
              @@ ("dependencies_file" :> DepCandidates[i])             \* break
         ELSE DependenciesFrom(fs, i + 1)

DependencySlots(fs) == DependenciesFrom(fs, 1)

\* f.is_file() and f.name != ".gitkeep"
Counted(fs, p) == Exists(At(fs, p)) /\ ~IsGitkeep(p)

\* lines 88-94: ai_listing is the order ai_sessions_dir.rglob("*") yields
AiSlots(fs, ai_listing) ==
    IF DirExists(fs, AiPaths)
    THEN LET ai_files == SelectSeq(ai_listing, LAMBDA p : Counted(fs, p))
         IN ("ai_session_count" :> Len(ai_files))
            @@ (IF ai_files # <<>>
                THEN "ai_session_sample" :> read_file(At(fs, ai_files[1]), SmallBudget)
                ELSE EmptyDict)
    ELSE EmptyDict

\* lines 96-100
HumanSlots(fs) ==
    IF DirExists(fs, HumanPaths)
    THEN "human_decision_count" :> Cardinality({p \in HumanPaths : Counted(fs, p)})
    ELSE EmptyDict

\* entries of (root / "data").rglob("*"): the files and the subdirectory holding them
DataEntries(fs) ==
    Cardinality({p \in DataTree : Exists(At(fs, p))})
    + (IF \E p \in OtherDataPaths : Exists(At(fs, p)) THEN 1 ELSE 0)

\* lines 122-124: the second rglob is only counted
CountSlots(fs) ==
    ("total_py_files" :> (IF DirExists(fs, CodeTree)
                          THEN Cardinality({p \in PyPaths : Exists(At(fs, p))}) ELSE 0))
    @@ ("total_data_files" :> (IF DirExists(fs, DataTree) THEN DataEntries(fs) ELSE 0))

\* ls gives the order of each listing the scan asks the file system for
collect_submission_content(fs, ls) ==
    ManuscriptSlots(fs, ls.first_listed)
    @@ FixedSlot(fs, "code_readme", "code/README.md", DefaultBudget)
    @@ ("source_files" :> SourceFiles(fs, ls.py))
    @@ DependencySlots(fs)
    @@ FixedSlot(fs, "process_log", "process-log/README.md", DefaultBudget)
    @@ AiSlots(fs, ls.ai)
    @@ HumanSlots(fs)
    @@ FixedSlot(fs, "reproducibility_checklist", "REPRODUCIBILITY.md", DefaultBudget)
    @@ FixedSlot(fs, "reproduce_script", "results/reproduce.sh", SmallBudget)
    @@ FixedSlot(fs, "data_readme", "data/README.md", DefaultBudget)
    @@ FixedSlot(fs, "readme", "README.md", DefaultBudget)
    @@ CountSlots(fs)

\* what matches[0] may be for a pattern ("" when nothing matches)
FirstListed(fs, pattern) ==
    IF GlobMatches(fs, pattern) = {} THEN {""} ELSE GlobMatches(fs, pattern)

\* what the file system may answer to the scan's listings of fs
ScanListings(fs) ==
    {[first_listed |-> (ManuscriptPatterns[1] :> f1) @@ (ManuscriptPatterns[2] :> f2)
                       @@ (ManuscriptPatterns[3] :> f3) @@ (ManuscriptPatterns[4] :> f4),
      py |-> pl, ai |-> al] :
        f1 \in FirstListed(fs, ManuscriptPatterns[1]),
        f2 \in FirstListed(fs, ManuscriptPatterns[2]),
        f3 \in FirstListed(fs, ManuscriptPatterns[3]),
        f4 \in FirstListed(fs, ManuscriptPatterns[4]),
        pl \in PyListings({p \in PyPaths : Exists(At(fs, p))}),
        al \in Listings({p \in AiPaths : Exists(At(fs, p))})}

(***************************************************************************)
(* build_review_prompt (lines 129-230).  Each operator below is one        *)
(* `if ...: sections.append(...)` of the code and yields the list of       *)
(* strings it appends.                                                     *)
(***************************************************************************)
\* content.get(key, default)
Get(d, key, default) == IF key \in DOMAIN d THEN d[key] ELSE default

\* Python's truth value of content.get(key) for a text slot: None and "" are false
Truthy(d, key) == key \in DOMAIN d /\ d[key] # ""

\* The three grave accents that open and close a fenced block; the TLA+ lexer
\* admits no grave accent in a string, so the fence is written with tildes.
Fence == "~~~"

\* lines 133-193: the static instruction text (its first line; the rest is as fixed)
InstructionHeader ==
    "You are an AI pre-screening assistant for AIDER (AI-Driven Energy Research), an open-access academic journal for AI + energy research."

\* a block f"\n---\n## {title}\n```{lang}\n{text}\n```"
FencedSection(title, lang, text) ==
    "\n---\n## " \o title \o "\n" \o Fence \o lang \o "\n" \o text \o "\n" \o Fence

\* lines 195-196
ReadmeSection(c) ==
    IF Truthy(c, "readme") THEN <<FencedSection("README.md", "", c["readme"])>> ELSE <<>>

ManuscriptSection_unconditional(c) ==
    <<FencedSection("Manuscript (" \o Get(c, "manuscript_file", "paper") \o ")", "",
                    Get(c, "manuscript", ""))>>

\* lines 198-199
ManuscriptSection(c) ==
    IF Truthy(c, "manuscript")
    THEN <<FencedSection("Manuscript (" \o Get(c, "manuscript_file", "paper") \o ")", "",
                         c["manuscript"])>>
    ELSE <<>>

\* lines 201-202
CodeReadmeSection(c) ==
    IF Truthy(c, "code_readme")
    THEN <<FencedSection("Code README", "", c["code_readme"])>>
    ELSE <<>>

SourceCountLine_counts_shown(c) ==
    "\n---\n## Source Code Files (" \o ToString(Len(c["source_files"]))
    \o " .py files total, showing up to 10)"

\* line 205: content.get('total_py_files', '?') formatted into the title
SourceCountLine(c) ==
    "\n---\n## Source Code Files ("
    \o (IF "total_py_files" \in DOMAIN c THEN ToString(c["total_py_files"]) ELSE "?")
    \o " .py files total, showing up to 10)"

\* line 207
SourceBlock(sf) ==
    "\n### " \o sf.path \o "\n" \o Fence \o "python\n" \o sf.content \o "\n" \o Fence

\* lines 204-207: an empty list is false
SourceSection(c) ==
    IF Get(c, "source_files", <<>>) # <<>>
    THEN <<SourceCountLine(c)>>
         \o [i \in 1..Len(c["source_files"]) |-> SourceBlock(c["source_files"][i])]
    ELSE <<>>

\* lines 209-210
DependenciesSection(c) ==
    IF Truthy(c, "dependencies")
    THEN <<FencedSection("Dependencies (" \o Get(c, "dependencies_file", "") \o ")", "",
                         c["dependencies"])>>
    ELSE <<>>

\* lines 212-213
ReproduceSection(c) ==
    IF Truthy(c, "reproduce_script")
    THEN <<FencedSection("reproduce.sh", "bash", c["reproduce_script"])>>
    ELSE <<>>

\* lines 215-216
DataReadmeSection(c) ==
    IF Truthy(c, "data_readme")
    THEN <<FencedSection("Data README", "", c["data_readme"])>>
    ELSE <<>>

\* lines 218-219
ProcessLogSection(c) ==
    IF Truthy(c, "process_log")
    THEN <<FencedSection("Process Log README", "", c["process_log"])>>
    ELSE <<>>

StatsSection_when_counted(c) ==
    IF Get(c, "ai_session_count", 0) # 0 \/ Get(c, "human_decision_count", 0) # 0
    THEN <<"\n---\n## Process Log Stats",
           "- AI session files: " \o ToString(Get(c, "ai_session_count", 0)),
           "- Human decision files: " \o ToString(Get(c, "human_decision_count", 0))>>
    ELSE <<>>

\* lines 221-223: appended unconditionally
StatsSection(c) ==
    <<"\n---\n## Process Log Stats",
      "- AI session files: " \o ToString(Get(c, "ai_session_count", 0)),
      "- Human decision files: " \o ToString(Get(c, "human_decision_count", 0))>>

\* lines 224-225
AiSampleSection(c) ==
    IF Truthy(c, "ai_session_sample")
    THEN <<"\n### Sample AI session (first file)\n" \o Fence \o "\n"
           \o c["ai_session_sample"] \o "\n" \o Fence>>
    ELSE <<>>

\* lines 227-228
ChecklistSection(c) ==
    IF Truthy(c, "reproducibility_checklist")
    THEN <<FencedSection("Reproducibility Checklist", "", c["reproducibility_checklist"])>>
    ELSE <<>>

build_review_prompt_reordered(c) ==
    <<InstructionHeader>>
    \o ReadmeSection(c)
    \o ManuscriptSection(c)
    \o CodeReadmeSection(c)
    \o DependenciesSection(c)
    \o SourceSection(c)
    \o ReproduceSection(c)
    \o DataReadmeSection(c)
    \o ProcessLogSection(c)
    \o StatsSection(c)
    \o AiSampleSection(c)
    \o ChecklistSection(c)

\* the list `sections` when line 230 joins it
build_review_prompt(c) ==
    <<InstructionHeader>>
    \o ReadmeSection(c)
    \o ManuscriptSection(c)
    \o CodeReadmeSection(c)
    \o SourceSection(c)
    \o DependenciesSection(c)
    \o ReproduceSection(c)
    \o DataReadmeSection(c)
    \o ProcessLogSection(c)
    \o StatsSection(c)
    \o AiSampleSection(c)
    \o ChecklistSection(c)

\* "\n".join(sections)
RECURSIVE Join(_)
Join(ss) == IF Len(ss) = 0 THEN ""
            ELSE IF Len(ss) = 1 THEN ss[1]
            ELSE ss[1] \o "\n" \o Join(Tail(ss))

(***************************************************************************)
(* The repositories a clone may deliver.                                   *)
(***************************************************************************)
\* the text of the file at path p: it names its path, so that a text tells its file
TextOf(p) == "text of " \o p

\* s repeated n times
RECURSIVE Times(_, _)
Times(s, n) ==
    IF n = 0 THEN ""
    ELSE LET half == Times(s, n \div 2)
         IN half \o half \o (IF n % 2 = 1 THEN s ELSE "")

\* a text one character longer than the largest budget of the scanner
LongText == Times("x", DefaultBudget + 1)

FileOfKind(p, kind) ==
    CASE kind = "text"    -> File(TextOf(p))
      [] kind = "long"    -> File(LongText)
      [] kind = "empty"   -> File("")
      [] kind = "blocked" -> Blocked
      [] OTHER            -> Absent

\* the repository with the files of kinds (path -> kind) and nothing else
RepoOf(kinds) ==
    [p \in {q \in DOMAIN kinds : kinds[q] # "absent"} |-> FileOfKind(p, kinds[p])]

FileKinds == {"absent", "text", "empty", "blocked"}

\* the single-path slots, each absent, with text, empty or unreadable
SlotRepos == {RepoOf(k) : k \in [SlotPaths -> FileKinds]}

\* every subset of the slots, with and without each other kind of material
CrossRepos ==
    {RepoOf(k) : k \in [SlotPaths
                        \cup {"paper/main.md", PyPath(1), PyPath(2), "code/pyproject.toml",
                              "process-log/ai-sessions/s1.md"}
                        -> {"absent", "text"}]}

\* every set of manuscripts; paper/main.tex also empty or unreadable
PaperRepos ==
    {RepoOf(k) : k \in {f \in [PaperPaths -> FileKinds] :
                           \A p \in PaperPaths \ {"paper/main.tex"} :
                               f[p] \in {"absent", "text"}}}

DepRepos == {RepoOf(k) : k \in [DepPaths -> {"absent", "text", "empty"}]}

\* source files PyPath(a..b), the first of them also empty or unreadable
PyRepos ==
    {RepoOf([p \in {PyPath(i) : i \in a..b} |-> IF p = PyPath(a) THEN first ELSE "text"]) :
        a \in 1..MaxPy, b \in 1..MaxPy, first \in {"text", "empty", "blocked"}}

SessionRepos ==
    {RepoOf(k) : k \in {f \in [AiPaths \cup HumanPaths \cup OtherDataPaths -> FileKinds] :
                           \A p \in DOMAIN f :
                               p # "process-log/ai-sessions/s1.md" => f[p] \in {"absent", "text"}}}

\* one file longer than every budget, beside a short top-level readme
LongRepos ==
    {RepoOf((p :> "long") @@ ("README.md" :> "text")) :
        p \in {"README.md", "paper/main.tex", "code/README.md", PyPath(1),
               "code/requirements.txt", "results/reproduce.sh",
               "process-log/ai-sessions/s1.md", "REPRODUCIBILITY.md"}}

Repos == SlotRepos \cup CrossRepos \cup PaperRepos \cup DepRepos \cup PyRepos
         \cup SessionRepos \cup LongRepos

\* the texts the generation call may return
Reports == {"## AI Pre-Screening Report"}

(***************************************************************************)
(* main (lines 266-300).                                                   *)
(***************************************************************************)
NoCalls == [clone |-> 0, scan |-> 0, build |-> 0, generate |-> 0, publish |-> 0]

Called(what) == [calls EXCEPT ![what] = @ + 1]

Init ==
    /\ pc = "start"
    /\ dry_run \in BOOLEAN
    /\ clone_dir_exists \in BOOLEAN          \* an earlier run may have left its clone
    /\ repo = RepoOf(EmptyDict)
    /\ listed = <<>>
    /\ content = EmptyDict
    /\ sections = <<>>
    /\ prompt = ""
    /\ report = ""
    /\ calls = NoCalls
    /\ failed = ""
    /\ exit_status = -1
    /\ stdout = ""
    /\ posted = <<>>
    /\ warned = FALSE
    /\ load_file = Absent
    /\ load_max = 0
    /\ load_out = ""
    /\ load_pc = "idle"

\* line 275: rm -rf clone_dir
RemoveStaleClone ==
    /\ pc = "start"
    /\ clone_dir_exists' = FALSE
    /\ pc' = "clone"
    /\ UNCHANGED <<dry_run, repo, listed, content, sections, prompt, report, calls, failed,
                   exit_status, stdout, posted, warned, loadVars>>

\* line 277, clone_repo returns True: the clone directory holds the repository
CloneSucceeds ==
    /\ pc = "clone"
    /\ \E r \in Repos : repo' = r
    /\ clone_dir_exists' = TRUE
    /\ calls' = Called("clone")
    /\ pc' = "collect"
    /\ UNCHANGED <<dry_run, listed, content, sections, prompt, report, failed, exit_status,
                   stdout, posted, warned, loadVars>>

CloneFails_without_exit ==
    /\ pc = "clone"
    /\ calls' = Called("clone")
    /\ failed' = "clone"
    /\ pc' = "collect"
    /\ UNCHANGED <<dry_run, clone_dir_exists, repo, listed, content, sections, prompt, report,
                   exit_status, stdout, posted, warned, loadVars>>

\* lines 277-279, clone_repo returns False: git removes what it created; sys.exit(1)
CloneFails ==
    /\ pc = "clone"
    /\ calls' = Called("clone")
    /\ failed' = "clone"
    /\ exit_status' = 1
    /\ pc' = "exited"
    /\ UNCHANGED <<dry_run, clone_dir_exists, repo, listed, content, sections, prompt, report,
                   stdout, posted, warned, loadVars>>

\* lines 283-286
CollectContent ==
    /\ pc = "collect"
    /\ \E ls \in ScanListings(repo) :
          /\ content' = collect_submission_content(repo, ls)
          /\ listed' = ls.py
    /\ warned' = ~Truthy(content', "manuscript")
    /\ calls' = Called("scan")
    /\ pc' = "build"
    /\ UNCHANGED <<dry_run, clone_dir_exists, repo, sections, prompt, report, failed,
                   exit_status, stdout, posted, loadVars>>

\* line 290
BuildPrompt ==
    /\ pc = "build"
    /\ sections' = build_review_prompt(content)
    /\ prompt' = Join(sections')
    /\ calls' = Called("build")
    /\ pc' = "generate"
    /\ UNCHANGED <<dry_run, clone_dir_exists, repo, listed, content, report, failed,
                   exit_status, stdout, posted, warned, loadVars>>

\* line 291, call_llm returns
GenerateSucceeds ==
    /\ pc = "generate"
    /\ \E r \in Reports : report' = r
    /\ calls' = Called("generate")
    /\ pc' = "output"
    /\ UNCHANGED <<dry_run, clone_dir_exists, repo, listed, content, sections, prompt, failed,
                   exit_status, stdout, posted, warned, loadVars>>

\* line 291, call_llm raises: the exception leaves main, the interpreter exits with 1
GenerateFails ==
    /\ pc = "generate"
    /\ calls' = Called("generate")
    /\ failed' = "generate"
    /\ exit_status' = 1
    /\ pc' = "exited"
    /\ UNCHANGED <<dry_run, clone_dir_exists, repo, listed, content, sections, prompt, report,
                   stdout, posted, warned, loadVars>>

\* lines 293-294
PrintReport ==
    /\ pc = "output"
    /\ dry_run
    /\ stdout' = "\n" \o report
    /\ pc' = "cleanup"
    /\ UNCHANGED <<dry_run, clone_dir_exists, repo, listed, content, sections, prompt, report,
                   calls, failed, exit_status, posted, warned, loadVars>>

\* lines 295-296, post_github_comment returns
PublishSucceeds ==
    /\ pc = "output"
    /\ ~dry_run
    /\ posted' = Append(posted, report)
    /\ calls' = Called("publish")
    /\ pc' = "cleanup"
    /\ UNCHANGED <<dry_run, clone_dir_exists, repo, listed, content, sections, prompt, report,
                   failed, exit_status, stdout, warned, loadVars>>

\* lines 295-296, raise_for_status raises: the exception leaves main, exit status 1
PublishFails ==
    /\ pc = "output"
    /\ ~dry_run
    /\ calls' = Called("publish")
    /\ failed' = "publish"
    /\ exit_status' = 1
    /\ pc' = "exited"
    /\ UNCHANGED <<dry_run, clone_dir_exists, repo, listed, content, sections, prompt, report,
                   stdout, posted, warned, loadVars>>

\* lines 298-300: rm -rf clone_dir, then main returns
Cleanup ==
    /\ pc = "cleanup"
    /\ clone_dir_exists' = FALSE
    /\ exit_status' = 0
    /\ pc' = "done"
    /\ UNCHANGED <<dry_run, repo, listed, content, sections, prompt, report, calls, failed,
                   stdout, posted, warned, loadVars>>

Next ==
    \/ RemoveStaleClone
    \/ CloneSucceeds
    \/ CloneFails
    \/ CollectContent
    \/ BuildPrompt
    \/ GenerateSucceeds
    \/ GenerateFails
    \/ PrintReport
    \/ PublishSucceeds
    \/ PublishFails
    \/ Cleanup

Spec == Init /\ [][Next]_vars

(***************************************************************************)
(* SpecLoad: read_file applied to a file and a budget.                     *)
(***************************************************************************)
RECURSIVE Repeat(_, _)
Repeat(ch, n) == IF n = 0 THEN "" ELSE ch \o Repeat(ch, n - 1)

RECURSIVE TextsUpTo(_)
TextsUpTo(n) ==
    IF n = 0 THEN {""}
    ELSE LET shorter == TextsUpTo(n - 1)
         IN shorter \cup {t \o ch : t \in shorter, ch \in {"a", "b"}}

\* every text over two characters up to MaxLen, and one text of each length that
\* can exceed the largest budget
LoadTexts == TextsUpTo(MaxLen) \cup {Repeat("c", n) : n \in 0..(MaxBudget + 1)}

InitLoad ==
    /\ pc = "idle"
    /\ dry_run = FALSE
    /\ clone_dir_exists = FALSE
    /\ repo = RepoOf(EmptyDict)
    /\ listed = <<>>
    /\ content = EmptyDict
    /\ sections = <<>>
    /\ prompt = ""
    /\ report = ""
    /\ calls = NoCalls
    /\ failed = ""
    /\ exit_status = -1
    /\ stdout = ""
    /\ posted = <<>>
    /\ warned = FALSE
    /\ load_file \in {File(t) : t \in LoadTexts} \cup {Blocked, Absent}
    /\ load_max \in 0..MaxBudget
    /\ load_out = ""
    /\ load_pc = "call"

\* one call of read_file(path, max_chars)
ReadFile ==
    /\ load_pc = "call"
    /\ load_out' = read_file(load_file, load_max)
    /\ load_pc' = "returned"
    /\ UNCHANGED <<load_file, load_max, mainVars>>

NextLoad == ReadFile

SpecLoad == InitLoad /\ [][NextLoad]_vars

(***************************************************************************)
(* Properties.                                                             *)
(***************************************************************************)
StartsWith(s, pre) == Len(s) >= Len(pre) /\ SubSeq(s, 1, Len(pre)) = pre

HasSection(ss, title) == \E i \in DOMAIN ss : StartsWith(ss[i], title)

\* collect_submission_content has just returned `content`
Scanned == pc = "build"

\* build_review_prompt has just returned the document
Built == pc = "generate"

Terminated == pc \in {"done", "exited"}

\* the title each optional slot's section opens with
SlotTitles ==
    <<[key |-> "readme",                    title |-> "\n---\n## README.md\n"],
      [key |-> "manuscript",                title |-> "\n---\n## Manuscript ("],
      [key |-> "code_readme",               title |-> "\n---\n## Code README\n"],
      [key |-> "source_files",              title |-> "\n---\n## Source Code Files ("],
      [key |-> "source_files",              title |-> "\n### code/"],
      [key |-> "dependencies",              title |-> "\n---\n## Dependencies ("],
      [key |-> "reproduce_script",          title |-> "\n---\n## reproduce.sh\n"],
      [key |-> "data_readme",               title |-> "\n---\n## Data README\n"],
      [key |-> "process_log",               title |-> "\n---\n## Process Log README\n"],
      [key |-> "ai_session_sample",         title |-> "\n### Sample AI session"],
      [key |-> "reproducibility_checklist", title |-> "\n---\n## Reproducibility Checklist\n"]>>

\* a slot is absent when the dict has no entry for it (no source file, for source_files)
SlotAbsent(c, key) ==
    IF key = "source_files" THEN Get(c, key, <<>>) = <<>> ELSE key \notin DOMAIN c

\* C1: whenever the run has terminated (success, clone failure, generation failure
\* or publish failure), the clone directory no longer exists.
C1_CloneReleasedOnEveryExit == Terminated => ~clone_dir_exists

\* C2: generation is called only after the clone succeeded; publish is called at
\* most once, only with the dry-run flag off and after generation returned a
\* report; a clone failure leaves zero scan, generation and publish calls, a
\* generation failure and a dry run leave zero publish calls, and clone or
\* generation failure ends the run with a non-zero exit status.
C2_CallsGatedByEarlierStages ==
    /\ calls.scan > 0 => (calls.clone = 1 /\ failed # "clone")
    /\ calls.generate > 0 => (calls.clone = 1 /\ failed # "clone" /\ calls.scan = 1)
    /\ calls.publish <= 1
    /\ calls.publish > 0 =>
          (~dry_run /\ calls.generate = 1 /\ failed # "generate" /\ report \in Reports)
    /\ failed = "clone" =>
          (calls.scan = 0 /\ calls.generate = 0 /\ calls.publish = 0
           /\ pc = "exited" /\ exit_status > 0)
    /\ failed = "generate" => (calls.publish = 0 /\ pc = "exited" /\ exit_status > 0)
    /\ dry_run => (calls.publish = 0 /\ posted = <<>>)

\* a run that published its report and completed
C2_Witness == pc = "done" /\ ~dry_run /\ calls.publish = 1 /\ posted # <<>>

\* C3: for every optional slot that is absent from the content, the assembled
\* document has no section titled for that slot.
C3_NoSectionForAbsentSlot ==
    Built =>
        \A k \in DOMAIN SlotTitles :
            SlotAbsent(content, SlotTitles[k].key) => ~HasSection(sections, SlotTitles[k].title)

\* a document with the readme section and without the manuscript's
C3_Witness ==
    /\ Built
    /\ SlotAbsent(content, "manuscript")
    /\ SlotAbsent(content, "source_files")
    /\ HasSection(sections, "\n---\n## README.md\n")

\* the fixed path of each single-path slot and the title of its section
SlotOfPath ==
    ("README.md" :> "\n---\n## README.md\n")
    @@ ("code/README.md" :> "\n---\n## Code README\n")
    @@ ("process-log/README.md" :> "\n---\n## Process Log README\n")
    @@ ("REPRODUCIBILITY.md" :> "\n---\n## Reproducibility Checklist\n")
    @@ ("results/reproduce.sh" :> "\n---\n## reproduce.sh\n")
    @@ ("data/README.md" :> "\n---\n## Data README\n")

\* C4: for every single-fixed-path slot whose file exists in the repository (also
\* when it is empty or unreadable), the document holds that slot's section.
C4_SectionForEveryExistingFile ==
    Built => \A p \in SlotPaths : Exists(At(repo, p)) => HasSection(sections, SlotOfPath[p])

\* the value of a text of decimal digits (-1 when it is not one)
DigitValue(ch) ==
    CASE ch = "0" -> 0 [] ch = "1" -> 1 [] ch = "2" -> 2 [] ch = "3" -> 3 [] ch = "4" -> 4
      [] ch = "5" -> 5 [] ch = "6" -> 6 [] ch = "7" -> 7 [] ch = "8" -> 8 [] ch = "9" -> 9
      [] OTHER -> -1

RECURSIVE DecimalValue(_)
DecimalValue(t) ==
    IF Len(t) = 0 THEN -1
    ELSE LET last == DigitValue(SubSeq(t, Len(t), Len(t)))
             front == SubSeq(t, 1, Len(t) - 1)
         IN IF last < 0 THEN -1
            ELSE IF Len(front) = 0 THEN last
            ELSE IF DecimalValue(front) < 0 THEN -1
            ELSE DecimalValue(front) * 10 + last

\* number of decimal digits of n >= 0
RECURSIVE DecimalDigits(_)
DecimalDigits(n) == IF n < 10 THEN 1 ELSE 1 + DecimalDigits(n \div 10)

MarkerOpening == "\n\n[... truncated at "

MarkerClosing == " chars ...]"

\* t is the truncation marker naming the limit n
IsMarkerNaming(t, n) ==
    /\ Len(t) = Len(MarkerOpening) + DecimalDigits(n) + Len(MarkerClosing)
    /\ SubSeq(t, 1, Len(MarkerOpening)) = MarkerOpening
    /\ DecimalValue(SubSeq(t, Len(MarkerOpening) + 1, Len(t) - Len(MarkerClosing))) = n
    /\ SubSeq(t, Len(t) - Len(MarkerClosing) + 1, Len(t)) = MarkerClosing

\* C5: for a readable file, read_file returns the full text when its length is at
\* most max_chars; otherwise exactly the first max_chars characters followed by
\* the marker naming max_chars, of length max_chars plus the marker's length.
C5_FullTextOrCutWithMarker ==
    (load_pc = "returned" /\ load_file.kind = "file") =>
        IF Len(load_file.text) <= load_max
        THEN load_out = load_file.text
        ELSE /\ SubSeq(load_out, 1, load_max) = SubSeq(load_file.text, 1, load_max)
             /\ IsMarkerNaming(SubSeq(load_out, load_max + 1, Len(load_out)), load_max)
             /\ Len(load_out)
                  = load_max + Len(MarkerOpening) + DecimalDigits(load_max) + Len(MarkerClosing)

\* a text longer than a two-digit budget, returned cut
C5_Witness ==
    /\ load_pc = "returned"
    /\ load_file.kind = "file"
    /\ Len(load_file.text) > load_max
    /\ load_max >= 10
    /\ load_out # load_file.text

\* the files the AI-session and human-decision directories hold, the keep-file apart
SessionFiles(fs, dir) == {p \in dir : Exists(At(fs, p)) /\ ~IsGitkeep(p)}

\* C6: the document always holds the process-log stats block, stating the AI
\* session count and the human decision count, 0 when there are none.
C6_StatsBlockAlwaysEmitted ==
    Built =>
        \E i \in DOMAIN sections :
            /\ i + 2 <= Len(sections)
            /\ sections[i] = "\n---\n## Process Log Stats"
            /\ sections[i + 1]
                 = "- AI session files: " \o ToString(Cardinality(SessionFiles(repo, AiPaths)))
            /\ sections[i + 2]
                 = "- Human decision files: "
                   \o ToString(Cardinality(SessionFiles(repo, HumanPaths)))

\* a document of a repository without either directory
C6_Witness ==
    /\ Built
    /\ ~DirExists(repo, AiPaths)
    /\ ~DirExists(repo, HumanPaths)
    /\ HasSection(sections, "- AI session files: 0")
    /\ HasSection(sections, "- Human decision files: 0")

\* the *.py paths of the repository
PyFilesOf(fs) == {p \in PyPaths : Exists(At(fs, p))}

\* the position of p among the paths S in path order
PositionIn(S, p) == 1 + Cardinality({q \in S : PyRank(q) < PyRank(p)})

\* C7: with K source files under code/, the scan records the first min(K, 10) of
\* them in path order and total_py_files = K, whatever order the file system
\* lists them in (so a re-scan of the unchanged repository records the same).
C7_FirstTenInPathOrder ==
    Scanned =>
        LET S == PyFilesOf(repo)
            K == Cardinality(S)
            sf == content["source_files"]
        IN /\ Len(sf) = Min(K, SourceCap)
           /\ \A i \in DOMAIN sf : sf[i].path \in S /\ PositionIn(S, sf[i].path) = i
           /\ content["total_py_files"] = K
           /\ \A pl \in PyListings(S) : SourceFiles(repo, pl) = sf

\* more than ten source files, listed by the file system out of path order
C7_Witness ==
    /\ Scanned
    /\ Cardinality(PyFilesOf(repo)) > SourceCap
    /\ Len(content["source_files"]) = SourceCap
    /\ listed # <<>>
    /\ PositionIn(PyFilesOf(repo), listed[1]) > SourceCap

\* the sections that are source-file blocks
SourceBlocks(ss) == {i \in DOMAIN ss : StartsWith(ss[i], "\n### code/")}

\* the count line in the code's wording, naming `total` files and `shown` shown
CountLine(total, shown) ==
    "\n---\n## Source Code Files (" \o ToString(total) \o " .py files total, showing up to "
    \o ToString(shown) \o ")"

\* C8 as stated: the count line before the source blocks states the total number
\* of source files and the number of files actually shown.
C8_CountLineStatesShown ==
    (Built /\ content["source_files"] # <<>>) =>
        HasSection(sections, CountLine(Cardinality(PyFilesOf(repo)),
                                       Len(content["source_files"])))

\* C8 as amended: one block per entry of source_files, titled with its path, in
\* scan order, right after a count line that states the total number of source
\* files and the cap of 10 (not the number shown).
C8_BlocksAfterTotalAndCap ==
    (Built /\ content["source_files"] # <<>>) =>
        LET sf == content["source_files"]
        IN \E i \in DOMAIN sections :
              /\ sections[i] = CountLine(Cardinality(PyFilesOf(repo)), SourceCap)
              /\ SourceBlocks(sections) = (i + 1)..(i + Len(sf))
              /\ \A j \in DOMAIN sf :
                    StartsWith(sections[i + j], "\n### " \o sf[j].path \o "\n")
              /\ Len(sf) <= SourceCap

\* fewer files than the cap: the count line names the cap, not the number shown
C8_Witness ==
    /\ Built
    /\ Len(content["source_files"]) > 1
    /\ Len(content["source_files"]) < SourceCap
    /\ Cardinality(SourceBlocks(sections)) = Len(content["source_files"])

\* the indices of the patterns (candidates) that match a file of fs
MatchingPatterns(fs) ==
    {i \in DOMAIN ManuscriptPatterns : GlobMatches(fs, ManuscriptPatterns[i]) # {}}

ExistingCandidates(fs) == {i \in DOMAIN DepCandidates : Exists(At(fs, DepCandidates[i]))}

Least(S) == CHOOSE i \in S : \A j \in S : i <= j

\* the text a recorded path must come with: the file's own text, which names it
RecordedTextOf(fs, p, text) ==
    /\ At(fs, p).kind = "file" /\ Len(At(fs, p).text) <= SmallBudget => text = At(fs, p).text
    /\ At(fs, p).kind = "file" /\ At(fs, p).text # "" /\ Len(At(fs, p).text) <= SmallBudget
          => text = TextOf(p)

\* C9: the manuscript comes from the earliest of the patterns paper/main.tex,
\* paper/main.md, paper/*.tex, paper/*.md that matches a file, the dependencies
\* from the earliest existing candidate; a later entry never overrides an earlier
\* match, and the recorded path is the path of the file whose text was recorded.
C9_FirstMatchWins ==
    Scanned =>
        /\ IF MatchingPatterns(repo) = {}
           THEN "manuscript" \notin DOMAIN content /\ "manuscript_file" \notin DOMAIN content
           ELSE /\ content["manuscript_file"]
                     \in GlobMatches(repo, ManuscriptPatterns[Least(MatchingPatterns(repo))])
                /\ RecordedTextOf(repo, content["manuscript_file"], content["manuscript"])
        /\ (Exists(At(repo, "paper/main.tex")) /\ Exists(At(repo, "paper/main.md")))
              => content["manuscript_file"] = "paper/main.tex"
        /\ IF ExistingCandidates(repo) = {}
           THEN "dependencies" \notin DOMAIN content
                /\ "dependencies_file" \notin DOMAIN content
           ELSE /\ content["dependencies_file"]
                     = DepCandidates[Least(ExistingCandidates(repo))]
                /\ RecordedTextOf(repo, content["dependencies_file"], content["dependencies"])

\* both exact manuscripts and a further .tex file present
C9_Witness ==
    /\ Scanned
    /\ Exists(At(repo, "paper/main.tex"))
    /\ Exists(At(repo, "paper/main.md"))
    /\ Exists(At(repo, "paper/draft.tex"))
    /\ content["manuscript_file"] = "paper/main.tex"

\* the openings of the sections in the canonical order
CanonicalOrder ==
    <<InstructionHeader,
      "\n---\n## README.md\n",
      "\n---\n## Manuscript (",
      "\n---\n## Code README\n",
      "\n---\n## Source Code Files (",
      "\n### code/",
      "\n---\n## Dependencies (",
      "\n---\n## reproduce.sh\n",
      "\n---\n## Data README\n",
      "\n---\n## Process Log README\n",
      "\n---\n## Process Log Stats",
      "- AI session files: ",
      "- Human decision files: ",
      "\n### Sample AI session (first file)\n",
      "\n---\n## Reproducibility Checklist\n">>

\* the place of a section in the canonical order (0 when it opens like none)
OrderOf(section) ==
    IF \E k \in DOMAIN CanonicalOrder : StartsWith(section, CanonicalOrder[k])
    THEN CHOOSE k \in DOMAIN CanonicalOrder : StartsWith(section, CanonicalOrder[k])
    ELSE 0

\* C10: the document starts with the instruction header, and its sections follow
\* the canonical order whatever subset of slots is present, each at most once
\* (the source-file blocks, one per file, stay together).
C10_CanonicalOrder ==
    Built =>
        /\ sections[1] = InstructionHeader
        /\ LET order == [i \in DOMAIN sections |-> OrderOf(sections[i])]
           IN /\ \A i \in DOMAIN order : order[i] > 0
              /\ \A i, j \in DOMAIN order :
                    i < j => \/ order[i] < order[j]
                             \/ /\ order[i] = order[j]
                                /\ StartsWith(sections[i], "\n### code/")
        /\ prompt = Join(sections)

\* a document with a section of every kind
C10_Witness ==
    /\ Built
    /\ \A k \in DOMAIN CanonicalOrder : HasSection(sections, CanonicalOrder[k])

====
